---- MODULE Spec2Model ----
(***************************************************************************)
(* Config flow of the Gas Station Spain integration                        *)
(* (custom_components/gas_station_spain/config_flow.py).                   *)
(*                                                                         *)
(* ConfigFlow is the four-step setup wizard (user, municipality, station,  *)
(* options); OptionFlowHandler is the one-step options editor.  The host   *)
(* (Home Assistant) owns the flow objects, validates a submitted record    *)
(* against the schema of the form it last showed, dispatches it to the     *)
(* handler of that step and stores the entries.                            *)
(*                                                                         *)
(* Python strings are sequences of one-character strings, so that str(),   *)
(* int() and f-string formatting are computed and not assumed.  Discounts  *)
(* are counted in hundredths (the sliders' step is 0.01).  An attribute or *)
(* an argument that holds no value is the empty sequence, one that holds   *)
(* the value v is <<v>> (ids, being strings, are stored as they are: no id *)
(* is the empty string).                                                   *)
(***************************************************************************)
EXTENDS Integers, Sequences, FiniteSets, TLC

VARIABLES
    flows,      \* flow id -> the ConfigFlow object and the host's record of it
    entries,    \* flow id -> the config entry that flow created (<<>>: none stored)
    editors,    \* entry -> the options flow open on it
    history     \* flow id -> what the user sent and what the host stored (a record
                \* of the past, read by no handler)

vars == <<flows, entries, editors, history>>

(* ------------------------------ bounds -------------------------------- *)

\* Number of wizard flows that may be started (and run interleaved).
NFlows == 2

Flows == 1..NFlows

(* --------------------------- program constants ------------------------ *)

\* NumberSelectorConfig(min=0, max=1, step=0.01) in hundredths.
FIXED_MIN == 0
FIXED_MAX == 100
\* NumberSelectorConfig(min=0, max=100, step=0.01) in hundredths.
PERCENTAGE_MIN == 0
PERCENTAGE_MAX == 10000

CONF_FIXED_DISCOUNT == "fixed_discount"
CONF_PERCENTAGE_DISCOUNT == "percentage_discount"
CONF_SHOW_IN_MAP == "show_in_map"
OptionKeys == {CONF_FIXED_DISCOUNT, CONF_PERCENTAGE_DISCOUNT, CONF_SHOW_IN_MAP}

(* ------------------------------ strings -------------------------------- *)

Digits == <<"0", "1", "2", "3", "4", "5", "6", "7", "8", "9">>

\* str(n) of a non-negative int: its decimal digits.
RECURSIVE str(_)
str(n) == IF n < 10 THEN <<Digits[n + 1]>>
          ELSE str(n \div 10) \o <<Digits[(n % 10) + 1]>>

DigitValue(c) == CHOOSE d \in 0..9 : Digits[d + 1] = c

\* int(s) of a string of decimal digits.
RECURSIVE int(_)
int(s) == IF Len(s) = 1 THEN DigitValue(s[1])
          ELSE 10 * int(SubSeq(s, 1, Len(s) - 1)) + DigitValue(s[Len(s)])

Range(xs) == {xs[i] : i \in DOMAIN xs}

(* ----------------- the remote catalogue (gas_station_spain_api) -------- *)

Products == <<[id |-> 1, name |-> "Diesel"],
              [id |-> 2, name |-> "Gasolina 95"]>>

Provinces == <<[id |-> 28, name |-> "Madrid"],
               [id |-> 8, name |-> "Barcelona"]>>

Municipalities == <<[id |-> 280, name |-> "Alcala de Henares", province |-> 28],
                    [id |-> 81, name |-> "Badalona", province |-> 8]>>

Stations == <<[id |-> 999, marquee |-> "Repsol", address |-> "Calle Mayor 1",
               municipality |-> 280, province |-> 28, products |-> {1, 2}],
              [id |-> 7, marquee |-> "BP", address |-> "Rambla 3",
               municipality |-> 81, province |-> 8, products |-> {1}]>>

\* gss.get_products(): local, cannot fail.
get_products == Products

\* await gss.get_provinces()
get_provinces == Provinces

\* await gss.get_municipalities(id_province=...): the id is passed as stored (a string).
get_municipalities(id_province) ==
    SelectSeq(Municipalities, LAMBDA m : str(m.province) = id_province)

\* await gss.get_gas_stations(municipality_id=, product_id=, province_id=): ints.
get_gas_stations(municipality_id, product_id, province_id) ==
    SelectSeq(Stations, LAMBDA s : /\ s.municipality = municipality_id
                                   /\ s.province = province_id
                                   /\ product_id \in s.products)

\* await gss.get_gas_station(station_id): the stations the remote holds under that id
\* (the id is passed as stored, a string).
get_gas_station(station_id) ==
    SelectSeq(Stations, LAMBDA s : str(s.id) = station_id)

(* ------------------------- voluptuous schemas --------------------------- *)

\* SelectSelector(SelectSelectorConfig(options=..., multiple=False)): the values offered.
SelectSelector(options) == [kind |-> "select", options |-> options]

\* NumberSelector(NumberSelectorConfig(min=, max=, step=0.01)) under
\* vol.Required(key, default=...).
NumberSelector(min, max, default) ==
    [kind |-> "number", min |-> min, max |-> max, default |-> <<default>>]

\* vol.Optional(key, default=...): cv.boolean
Boolean(default) == [kind |-> "boolean", default |-> <<default>>]

\* One field of a schema accepts the value v.
FieldAccepts(field, v) ==
    CASE field.kind = "select" -> v \in Range(field.options)
      [] field.kind = "number" -> field.min <= v /\ v <= field.max
      [] field.kind = "boolean" -> v \in BOOLEAN

HasDefault(field) == field.kind # "select"

\* data_schema(user_input) succeeds: no unknown key, every key without a default
\* is present, every value given passes its selector.
SchemaAccepts(schema, user_input) ==
    /\ DOMAIN user_input \subseteq DOMAIN schema
    /\ \A k \in DOMAIN schema :
          IF k \in DOMAIN user_input THEN FieldAccepts(schema[k], user_input[k])
          ELSE HasDefault(schema[k])

\* data_schema(user_input): the record handed to the step, defaults filled in.
SchemaOutput(schema, user_input) ==
    [k \in DOMAIN schema |->
        IF k \in DOMAIN user_input THEN user_input[k] ELSE schema[k].default[1]]

\* Mutant: the two sliders share the percentage's upper limit.
OptionsSchema_OneMax(fixed, percentage, show_in_map) ==
    [fixed_discount |-> NumberSelector(FIXED_MIN, PERCENTAGE_MAX, fixed),
     percentage_discount |-> NumberSelector(PERCENTAGE_MIN, PERCENTAGE_MAX, percentage),
     show_in_map |-> Boolean(show_in_map)]

\* The discount/visibility schema of the wizard's options step and of the editor.
OptionsSchema(fixed, percentage, show_in_map) ==
    [fixed_discount |-> NumberSelector(FIXED_MIN, FIXED_MAX, fixed),
     percentage_discount |-> NumberSelector(PERCENTAGE_MIN, PERCENTAGE_MAX, percentage),
     show_in_map |-> Boolean(show_in_map)]

\* self.async_show_form(step_id=..., data_schema=...): no errors are ever passed.
async_show_form(step_id, schema) ==
    [type |-> "form", step_id |-> step_id, data_schema |-> schema, errors |-> {}]

(* ------------------------------ ConfigFlow ------------------------------ *)

\* A flow object as constructed: the class only annotates its attributes, none
\* holds a value.  cur_step is the host's record of the form last shown and
\* result the kind of the last outcome ("none", "form", "create_entry", "abort",
\* "fault": an exception left the handler).  fault names the call that raised.
\* requests lists the remote calls the last handler invocation issued, each
\* with its arguments and the list the remote holds for them.
NewFlow ==
    [province_id |-> <<>>, product_id |-> <<>>, municipality_id |-> <<>>,
     station_id |-> <<>>, show_in_map |-> <<>>, fixed_discount |-> <<>>,
     percentage_discount |-> <<>>, unique_id |-> <<>>,
     cur_step |-> <<>>, result |-> "none", fault |-> "none", requests |-> <<>>]

\* The flow object after it has issued a remote call.
Requested(self, call, args, response) ==
    [self EXCEPT !.requests =
        @ \o <<[call |-> call, args |-> args, response |-> response]>>]

\* What a handler hands back: the flow object as it left it, and either the
\* FlowResult it returned or the exception that escaped it.
Returns(self, result) == [self |-> self, result |-> result]
Raises(self, what) == [self |-> self, result |-> [type |-> "fault", fault |-> what]]

\* SelectOptionDict(label=..., value=str(x.id)) for x in xs: the values.
OptionValues(xs) == [i \in DOMAIN xs |-> str(xs[i].id)]

\* is_matching: no flow matches another.
is_matching(self, other_flow) == FALSE

\* Final step without input: the sliders and the toggle, defaults 0 / 0 / False.
async_step_options_form(self) ==
    Returns(self, async_show_form("options", OptionsSchema(0, 0, FALSE)))

\* Third step without input: fetch the stations, show the selector.
async_step_station_form(self, remote_ok) ==
    LET args == <<int(self.municipality_id), int(self.product_id),
                  int(self.province_id)>>
        stations == get_gas_stations(args[1], args[2], args[3])
        s1 == Requested(self, "get_gas_stations", args, stations)
    IN  IF ~remote_ok THEN Raises(s1, "get_gas_stations")
        ELSE Returns(s1, async_show_form("station",
                 [station |-> SelectSelector(OptionValues(stations))]))

\* Mutant: the municipalities are asked for with the product id.
async_step_municipality_form_ByProduct(self, remote_ok) ==
    LET args == <<self.product_id>>
        municipalities == get_municipalities(args[1])
        s1 == Requested(self, "get_municipalities", args, municipalities)
    IN  IF ~remote_ok THEN Raises(s1, "get_municipalities")
        ELSE Returns(s1, async_show_form("municipality",
                 [municipality |-> SelectSelector(OptionValues(municipalities))]))

\* Second step without input: fetch the municipalities, show the selector.
async_step_municipality_form(self, remote_ok) ==
    LET args == <<self.province_id>>
        municipalities == get_municipalities(args[1])
        s1 == Requested(self, "get_municipalities", args, municipalities)
    IN  IF ~remote_ok THEN Raises(s1, "get_municipalities")
        ELSE Returns(s1, async_show_form("municipality",
                 [municipality |-> SelectSelector(OptionValues(municipalities))]))

\* Mutant: the provinces come from a list kept in the module, no remote call.
async_step_user_form_Cached(self, remote_ok) ==
    Returns(self, async_show_form("user",
        [product |-> SelectSelector(OptionValues(get_products)),
         province |-> SelectSelector(OptionValues(Provinces))]))

\* First step without input: fetch the provinces, list the products, show both.
async_step_user_form(self, remote_ok) ==
    LET provinces == get_provinces
        s1 == Requested(self, "get_provinces", <<>>, provinces)
    IN  IF ~remote_ok THEN Raises(s1, "get_provinces")
        ELSE Returns(s1, async_show_form("user",
                 [product |-> SelectSelector(OptionValues(get_products)),
                  province |-> SelectSelector(OptionValues(provinces))]))

\* next(p for p in gss.get_products() if p.id == int(self.product_id))
FindProduct(product_id) ==
    SelectSeq(get_products, LAMBDA p : p.id = int(product_id))

\* Mutant: the two parts of the unique id in the other order.
UniqueId_Swapped(product_id, station) == str(station.id) \o <<"-">> \o product_id

\* f"{self.product_id}-{station.id}"
UniqueId(product_id, station) == product_id \o <<"-">> \o str(station.id)

\* Mutant: the title puts the address before the brand.
EntryTitle_AddressFirst(product, station) ==
    product.name \o ", " \o station.address \o " (" \o station.marquee \o ")"

\* f"{product.name}, {station.marquee} ({station.address})"
EntryTitle(product, station) ==
    product.name \o ", " \o station.marquee \o " (" \o station.address \o ")"

\* Mutant: the station key is filled from the municipality.
EntryData_StationFromMunicipality(self) ==
    [product |-> self.product_id,
     municipality |-> self.municipality_id,
     station |-> self.municipality_id,
     fixed_discount |-> self.fixed_discount[1],
     percentage_discount |-> self.percentage_discount[1],
     show_in_map |-> self.show_in_map[1]]

\* The data record of the entry.
EntryData(self) ==
    [product |-> self.product_id,
     municipality |-> self.municipality_id,
     station |-> self.station_id,
     fixed_discount |-> self.fixed_discount[1],
     percentage_discount |-> self.percentage_discount[1],
     show_in_map |-> self.show_in_map[1]]

\* self.async_create_entry(title=..., data=...)
async_create_entry(title, data) ==
    [type |-> "create_entry", title |-> title, data |-> data]

\* Mutant: the unique id is registered from the submitted ids before the
\* station is looked up.
async_step_options_submit_EarlyId(self, user_input, remote_ok, in_progress) ==
    LET s0 == [self EXCEPT !.show_in_map = <<user_input[CONF_SHOW_IN_MAP]>>,
                           !.fixed_discount = <<user_input[CONF_FIXED_DISCOUNT]>>,
                           !.percentage_discount = <<user_input[CONF_PERCENTAGE_DISCOUNT]>>,
                           !.unique_id = self.product_id \o <<"-">> \o self.station_id]
        found == get_gas_station(s0.station_id)
        s1 == Requested(s0, "get_gas_station", <<s0.station_id>>, found)
        products == FindProduct(s1.product_id)
    IN  IF ~remote_ok \/ found = <<>> THEN Raises(s1, "get_gas_station")
        ELSE IF products = <<>> THEN Raises(s1, "next")
        ELSE IF s1.unique_id \in in_progress
        THEN Returns(s1, [type |-> "abort", reason |-> "already_in_progress"])
        ELSE Returns(s1, async_create_entry(EntryTitle(products[1], found[1]),
                                            EntryData(s1)))

\* Final step with input: store the options, resolve station and product,
\* set the unique id, create the entry.  in_progress: the unique ids of the
\* other flows of this handler that are in progress (the host's
\* async_set_unique_id aborts on one of them).
async_step_options_submit(self, user_input, remote_ok, in_progress) ==
    LET s0 == [self EXCEPT !.show_in_map = <<user_input[CONF_SHOW_IN_MAP]>>,
                           !.fixed_discount = <<user_input[CONF_FIXED_DISCOUNT]>>,
                           !.percentage_discount = <<user_input[CONF_PERCENTAGE_DISCOUNT]>>]
        found == get_gas_station(s0.station_id)
        s1 == Requested(s0, "get_gas_station", <<s0.station_id>>, found)
        products == FindProduct(s1.product_id)
    IN  IF ~remote_ok \/ found = <<>> THEN Raises(s1, "get_gas_station")
        ELSE IF products = <<>> THEN Raises(s1, "next")
        ELSE LET station == found[1]
                 product == products[1]
                 unique == UniqueId(s1.product_id, station)
                 name == EntryTitle(product, station)
                 s2 == [s1 EXCEPT !.unique_id = unique]
             IN  IF unique \in in_progress
                 THEN Returns(s2, [type |-> "abort", reason |-> "already_in_progress"])
                 ELSE Returns(s2, async_create_entry(name, EntryData(s2)))

\* Mutant: no test of user_input: without input the entry is created at once
\* from the form's defaults.
async_step_options_NoGuard(self, user_input, remote_ok, in_progress) ==
    async_step_options_submit(self,
        IF user_input = <<>>
        THEN [fixed_discount |-> 0, percentage_discount |-> 0, show_in_map |-> FALSE]
        ELSE user_input[1],
        remote_ok, in_progress)

\* Final step: the form without input, the entry with input.
async_step_options(self, user_input, remote_ok, in_progress) ==
    IF user_input # <<>>
    THEN async_step_options_submit(self, user_input[1], remote_ok, in_progress)
    ELSE async_step_options_form(self)

\* Third step: with input store the station id and go on to the options step.
async_step_station(self, user_input, remote_ok) ==
    IF user_input # <<>>
    THEN async_step_options([self EXCEPT !.station_id = user_input[1].station],
                            <<>>, remote_ok, {})
    ELSE async_step_station_form(self, remote_ok)

\* Second step: with input store the municipality id and go on to the station step.
async_step_municipality(self, user_input, remote_ok) ==
    IF user_input # <<>>
    THEN async_step_station(
             [self EXCEPT !.municipality_id = user_input[1].municipality],
             <<>>, remote_ok)
    ELSE async_step_municipality_form(self, remote_ok)

\* First step: with input store product and province and go on to the
\* municipality step.
async_step_user(self, user_input, remote_ok) ==
    IF user_input # <<>>
    THEN async_step_municipality(
             [self EXCEPT !.product_id = user_input[1].product,
                          !.province_id = user_input[1].province],
             <<>>, remote_ok)
    ELSE async_step_user_form(self, remote_ok)

(* --------------------------- OptionFlowHandler -------------------------- *)

\* float(x): the same number (discounts are numbers already).
float(x) == x

\* Mutant: an absent option falls back to the wizard's default, not to data.
OptionsGet_NoFallback(config_entry, key) ==
    IF key \in DOMAIN config_entry.options
    THEN config_entry.options[key]
    ELSE IF key = CONF_SHOW_IN_MAP THEN FALSE ELSE 0

\* self._config_entry.options.get(key, self._config_entry.data[key])
OptionsGet(config_entry, key) ==
    IF key \in DOMAIN config_entry.options
    THEN config_entry.options[key]
    ELSE config_entry.data[key]

\* The editor's step without input: read the three current values and show
\* them as the form's defaults.  Each data[key] is evaluated before get is
\* called, so a data record that lacks a key raises KeyError.
async_step_init_form(config_entry) ==
    IF ~(OptionKeys \subseteq DOMAIN config_entry.data)
    THEN Raises(config_entry, "KeyError")
    ELSE LET fixed == OptionsGet(config_entry, CONF_FIXED_DISCOUNT)
             percentage == OptionsGet(config_entry, CONF_PERCENTAGE_DISCOUNT)
             show_in_map == OptionsGet(config_entry, CONF_SHOW_IN_MAP)
         IN  Returns(config_entry,
                     async_show_form("init",
                         OptionsSchema(float(fixed), float(percentage), show_in_map)))

\* Mutant: the submitted record is merged into the current options, a key the
\* options already hold keeping its value.
async_step_init_Merge(config_entry, user_input) ==
    IF user_input # <<>>
    THEN Returns(config_entry,
             async_create_entry("Gasolineras de Espana",
                 [k \in DOMAIN user_input[1] |->
                     IF k \in DOMAIN config_entry.options
                     THEN config_entry.options[k] ELSE user_input[1][k]]))
    ELSE async_step_init_form(config_entry)

\* The one step of the options editor.
async_step_init(config_entry, user_input) ==
    IF user_input # <<>>
    THEN Returns(config_entry,
                 async_create_entry("Gasolineras de Espana", user_input[1]))
    ELSE async_step_init_form(config_entry)

(* ------------------------------- the host ------------------------------- *)

NoEditor == [cur_step |-> <<>>, result |-> "none"]

\* Nothing sent yet: per step the record last handed to its handler, and the
\* number of entries the host stored for the flow.
NoHistory ==
    [user |-> <<>>, municipality |-> <<>>, station |-> <<>>, options |-> <<>>,
     init |-> <<>>, created |-> 0]

Init ==
    /\ flows = [f \in Flows |-> NewFlow]
    /\ entries = [f \in Flows |-> <<>>]
    /\ editors = [f \in Flows |-> NoEditor]
    /\ history = [f \in Flows |-> NoHistory]

\* The records a user may send to each step.
UserInputs ==
    {[product |-> str(p), province |-> str(q)] : p \in {1, 2}, q \in {28, 8}}
    \cup {[product |-> str(1)]}
MunicipalityInputs == {[municipality |-> str(m)] : m \in {280, 81}}
StationInputs == {[station |-> str(s)] : s \in {999, 7}}
OptionInputs ==
    {<<>>,
     [fixed_discount |-> 100, percentage_discount |-> 10000, show_in_map |-> TRUE],
     [fixed_discount |-> 101, percentage_discount |-> 0, show_in_map |-> FALSE],
     [fixed_discount |-> 0, percentage_discount |-> 10001, show_in_map |-> TRUE],
     [fixed_discount |-> 0 - 1, percentage_discount |-> 0 - 1]}

InputsOf(step_id) ==
    CASE step_id = "user" -> UserInputs
      [] step_id = "municipality" -> MunicipalityInputs
      [] step_id = "station" -> StationInputs
      [] OTHER -> OptionInputs

\* The unique ids of the flows in progress other than f.
InProgress(f) ==
    {flows[g].unique_id : g \in {h \in Flows \ {f} : /\ flows[h].cur_step # <<>>
                                                      /\ flows[h].unique_id # <<>>}}

\* async_step_<step_id>(user_input): the invocation starts with no remote call
\* issued.
HandleStep(f, step_id, user_input, remote_ok) ==
    LET self == [flows[f] EXCEPT !.requests = <<>>]
    IN  CASE step_id = "user" -> async_step_user(self, user_input, remote_ok)
          [] step_id = "municipality" ->
                 async_step_municipality(self, user_input, remote_ok)
          [] step_id = "station" -> async_step_station(self, user_input, remote_ok)
          [] step_id = "options" ->
                 async_step_options(self, user_input, remote_ok, InProgress(f))

\* The entry the host stores for a create_entry result of flow `self`.
NewEntry(self, result) ==
    [unique_id |-> self.unique_id, title |-> result.title, data |-> result.data,
     options |-> <<>>]

\* Mutant: the result is stored the way a wizard's result is, title included.
UpdateEntry_WithTitle(config_entry, result) ==
    [config_entry EXCEPT !.options = result.data, !.title = result.title]

\* The entry after the host has stored the create_entry result of its options
\* flow: the result's data becomes the options record, the title is not used.
UpdateEntry(config_entry, result) ==
    [config_entry EXCEPT !.options = result.data]

\* Mutant: the selections are class attributes, one copy for all flow objects.
StoreFlow_ClassAttributes(f, self) ==
    [g \in Flows |->
        IF g = f THEN self
        ELSE [flows[g] EXCEPT !.province_id = self.province_id,
                              !.product_id = self.product_id,
                              !.municipality_id = self.municipality_id,
                              !.station_id = self.station_id]]

\* The flows after flow f's handler has left its object as `self`: the
\* attributes are set on the instance, no other flow object sees them.
StoreFlow(f, self) == [flows EXCEPT ![f] = self]

\* The host takes a handler's outcome: a form becomes the current step; a fault
\* leaves the flow where it was (a flow whose first render faulted has no
\* step and can take no input); an abort or a created entry ends the flow.
\* An entry created under a unique id that is already configured either
\* replaces the configured entry or is stored beside it.
Finish(f, step_id, user_input, out) ==
    LET self == out.self
        result == out.result
        sent == IF user_input = <<>> THEN history[f]
                ELSE [history[f] EXCEPT ![step_id] = user_input]
    IN  CASE result.type = "form" ->
               /\ flows' = StoreFlow(f,
                     [self EXCEPT !.cur_step = <<result>>, !.result = "form",
                                  !.fault = "none"])
               /\ history' = [history EXCEPT ![f] = sent]
               /\ UNCHANGED entries
          [] result.type = "fault" ->
               /\ flows' = StoreFlow(f,
                     [self EXCEPT !.result = "fault", !.fault = result.fault])
               /\ history' = [history EXCEPT ![f] = sent]
               /\ UNCHANGED entries
          [] result.type = "abort" ->
               /\ flows' = StoreFlow(f,
                     [self EXCEPT !.cur_step = <<>>, !.result = "abort",
                                  !.fault = "none"])
               /\ history' = [history EXCEPT ![f] = sent]
               /\ UNCHANGED entries
          [] result.type = "create_entry" ->
               /\ flows' = StoreFlow(f,
                     [self EXCEPT !.cur_step = <<>>, !.result = "create_entry",
                                  !.fault = "none"])
               /\ history' = [history EXCEPT ![f] =
                     [sent EXCEPT !.created = @ + 1]]
               /\ \E replace \in BOOLEAN :
                     entries' = [g \in Flows |->
                         IF g = f THEN <<NewEntry(self, result)>>
                         ELSE IF /\ replace
                                 /\ entries[g] # <<>>
                                 /\ entries[g][1].unique_id = self.unique_id
                              THEN <<>>
                              ELSE entries[g]]

\* The user starts a wizard: the host constructs the flow and calls
\* async_step_user().
StartFlow(f) ==
    /\ flows[f].result = "none"
    /\ \E remote_ok \in BOOLEAN :
          Finish(f, "user", <<>>, HandleStep(f, "user", <<>>, remote_ok))
    /\ UNCHANGED editors

\* The user submits a record the schema of the current form accepts: the
\* host calls the handler of the current step with it.
Submit(f) ==
    /\ flows[f].cur_step # <<>>
    /\ LET step == flows[f].cur_step[1]
       IN  \E raw \in InputsOf(step.step_id), remote_ok \in BOOLEAN :
              /\ SchemaAccepts(step.data_schema, raw)
              /\ LET user_input == <<SchemaOutput(step.data_schema, raw)>>
                 IN  Finish(f, step.step_id, user_input,
                            HandleStep(f, step.step_id, user_input, remote_ok))
    /\ UNCHANGED editors

\* The user submits a record the schema refuses: the host raises InvalidData
\* to the caller, the handler is not called and nothing changes.
SubmitInvalid(f) ==
    /\ flows[f].cur_step # <<>>
    /\ LET step == flows[f].cur_step[1]
       IN  \E raw \in InputsOf(step.step_id) :
              ~SchemaAccepts(step.data_schema, raw)
    /\ UNCHANGED vars

\* The user opens the options editor of entry e: async_step_init().
OpenEditor(e) ==
    /\ entries[e] # <<>>
    /\ LET out == async_step_init(entries[e][1], <<>>)
       IN  editors' = [editors EXCEPT ![e] =
              IF out.result.type = "form"
              THEN [cur_step |-> <<out.result>>, result |-> "form"]
              ELSE [cur_step |-> <<>>, result |-> "fault"]]
    /\ UNCHANGED <<flows, entries, history>>

\* The user submits the editor's form: the host stores the record the
\* handler returns as the entry's options, and the options flow ends.
SubmitEditor(e) ==
    /\ entries[e] # <<>>
    /\ editors[e].cur_step # <<>>
    /\ LET step == editors[e].cur_step[1]
       IN  \E raw \in OptionInputs :
              /\ SchemaAccepts(step.data_schema, raw)
              /\ LET user_input == <<SchemaOutput(step.data_schema, raw)>>
                     out == async_step_init(entries[e][1], user_input)
                 IN  /\ entries' = [entries EXCEPT ![e] =
                            <<UpdateEntry(entries[e][1], out.result)>>]
                     /\ history' = [history EXCEPT ![e].init = user_input]
    /\ editors' = [editors EXCEPT ![e] = NoEditor]
    /\ UNCHANGED flows

\* The user submits a record the editor's schema refuses.
SubmitEditorInvalid(e) ==
    /\ entries[e] # <<>>
    /\ editors[e].cur_step # <<>>
    /\ \E raw \in OptionInputs :
          ~SchemaAccepts(editors[e].cur_step[1].data_schema, raw)
    /\ UNCHANGED vars

Next ==
    \E f \in Flows :
       \/ StartFlow(f)
       \/ Submit(f)
       \/ SubmitInvalid(f)
       \/ OpenEditor(f)
       \/ SubmitEditor(f)
       \/ SubmitEditorInvalid(f)

Spec == Init /\ [][Next]_vars

(* ---------------- the options editor on any stored entry ---------------- *)

\* The editor is handed whatever entry the host holds, whichever revision of
\* the integration stored it: each record may hold or lack each option key.
StoredRecords ==
    {[k \in keys |-> r[k]] :
        r \in [fixed_discount : {0, FIXED_MAX},
               percentage_discount : {0, PERCENTAGE_MAX},
               show_in_map : BOOLEAN],
        keys \in SUBSET OptionKeys}

EditorInit ==
    /\ flows = [f \in Flows |-> NewFlow]
    /\ editors = [f \in Flows |-> NoEditor]
    /\ history = [f \in Flows |-> NoHistory]
    /\ \E data \in StoredRecords, options \in StoredRecords :
          entries = [f \in Flows |->
              IF f = 1
              THEN <<[unique_id |-> UniqueId(str(1), Stations[1]),
                      title |-> EntryTitle(Products[1], Stations[1]),
                      data |-> data, options |-> options]>>
              ELSE <<>>]

EditorNext ==
    \E e \in Flows :
       \/ OpenEditor(e)
       \/ SubmitEditor(e)
       \/ SubmitEditorInvalid(e)

SpecEditor == EditorInit /\ [][EditorNext]_vars

(* ------------------------------- claims --------------------------------- *)

StepIds == <<"user", "municipality", "station", "options">>

Rank(step_id) == CHOOSE i \in DOMAIN StepIds : StepIds[i] = step_id

\* The step the flow is at ("" when it shows no form).
StepOf(flow) == IF flow.cur_step = <<>> THEN "" ELSE flow.cur_step[1].step_id

Stored(e) == entries[e] # <<>>

\* In this step the handler of flow f's current step was called with a record.
Submitted(f) ==
    /\ flows[f].cur_step # <<>>
    /\ flows'[f] # flows[f] \/ history'[f] # history[f]

\* Some stored entry has the unique id u.
Configured(u) == \E g \in Flows : Stored(g) /\ entries[g][1].unique_id = u

UniqueIdsDistinct ==
    \A f, g \in Flows :
        (f # g /\ Stored(f) /\ Stored(g))
            => entries[f][1].unique_id # entries[g][1].unique_id

\* C1: no two stored entries ever share a unique_id, and an options-step submit
\* for a product and station that already have an entry ends the wizard with an
\* abort and stores nothing.
C1_DuplicateAborts ==
    [][/\ UniqueIdsDistinct'
       /\ \A f \in Flows :
            (/\ Submitted(f)
             /\ StepOf(flows[f]) = "options"
             /\ flows'[f].cur_step = <<>>
             /\ Configured(flows'[f].unique_id))
                => (flows'[f].result = "abort" /\ entries' = entries)]_vars

\* C2: the unique_id of the entry a flow created is the product id sent to
\* its user step, a hyphen, and the station id sent to its station step.
C2_UniqueIdFromSelections ==
    \A f \in Flows :
        Stored(f) =>
            /\ history[f].user # <<>> /\ history[f].station # <<>>
            /\ entries[f][1].unique_id =
                   history[f].user[1].product \o <<"-">> \o history[f].station[1].station

\* C2 witness: an entry for product 1 at station 999 (unique_id "1-999").
C2_Witness ==
    \E f \in Flows :
        /\ Stored(f)
        /\ entries[f][1].unique_id = <<"1", "-", "9", "9", "9">>
        /\ history[f].user[1].product = <<"1">>
        /\ history[f].station[1].station = <<"9", "9", "9">>

\* C3: every record sent to a step yields the form of the next step (the
\* created entry after options), and the step a flow shows never moves back.
C3_StrictOrder ==
    [][\A f \in Flows :
          /\ Submitted(f) =>
                IF StepOf(flows[f]) = "options"
                THEN flows'[f].result = "create_entry"
                ELSE /\ flows'[f].result = "form"
                     /\ StepOf(flows'[f]) = StepIds[Rank(StepOf(flows[f])) + 1]
          /\ (flows[f].cur_step # <<>> /\ flows'[f].cur_step # <<>>)
                => Rank(StepOf(flows'[f])) >= Rank(StepOf(flows[f]))]_vars

ListFetches == {"get_provinces", "get_municipalities", "get_gas_stations"}

\* C4: a failing fetch of provinces, municipalities or stations never leaves
\* the step handler as a fault: the step answers with a form that carries an
\* error.
C4_FetchFailureIsFormError ==
    \A f \in Flows :
        ~(flows[f].result = "fault" /\ flows[f].fault \in ListFetches)

\* The value the editor's form of entry e shows for key.
FormDefault(e, key) == editors[e].cur_step[1].data_schema[key].default[1]

\* The editor of entry e has been opened and not yet submitted.
Opened(e) == Stored(e) /\ editors[e].result # "none"

\* C5: for each option key on its own, when the options record holds the key
\* the editor's form shows the options value, whatever data holds or lacks.
C5_OptionsPreferred ==
    \A e \in Flows :
        Opened(e) =>
            \A k \in OptionKeys \cap DOMAIN entries[e][1].options :
                /\ editors[e].cur_step # <<>>
                /\ FormDefault(e, k) = entries[e][1].options[k]

\* C6: for an entry with an empty options record whose data holds the three
\* option keys, the editor's form shows exactly the data values.
C6_DefaultsFromData ==
    \A e \in Flows :
        (/\ Opened(e)
         /\ DOMAIN entries[e][1].options = {}
         /\ OptionKeys \subseteq DOMAIN entries[e][1].data)
            => /\ editors[e].cur_step # <<>>
               /\ \A k \in OptionKeys : FormDefault(e, k) = entries[e][1].data[k]

\* C6 witness: the editor is open on an entry without options whose data holds
\* the values 1.00 / 100.00 / True.
C6_Witness ==
    \E e \in Flows :
        /\ Opened(e)
        /\ editors[e].cur_step # <<>>
        /\ DOMAIN entries[e][1].options = {}
        /\ entries[e][1].data[CONF_FIXED_DISCOUNT] = FIXED_MAX
        /\ entries[e][1].data[CONF_PERCENTAGE_DISCOUNT] = PERCENTAGE_MAX
        /\ entries[e][1].data[CONF_SHOW_IN_MAP]

\* C7: after the editor's form is submitted the options record is exactly the
\* record handed to the handler: nothing of the previous options record is kept.
C7_OptionsReplaced ==
    \A e \in Flows :
        (Stored(e) /\ history[e].init # <<>>)
            => entries[e][1].options = history[e].init[1]

\* C7 witness: an entry whose options were written by the editor and differ
\* from its data in a value.
C7_Witness ==
    \E e \in Flows :
        /\ Stored(e)
        /\ history[e].init # <<>>
        /\ entries[e][1].options[CONF_FIXED_DISCOUNT]
               # entries[e][1].data[CONF_FIXED_DISCOUNT]

\* C8: a step of the options editor (open or submit) leaves every stored
\* entry's data, title and unique_id as they were.
C8_EditorKeepsData ==
    [][(flows' = flows) =>
          \A e \in Flows :
              Stored(e) =>
                  /\ entries'[e] # <<>>
                  /\ entries'[e][1].data = entries[e][1].data
                  /\ entries'[e][1].title = entries[e][1].title
                  /\ entries'[e][1].unique_id = entries[e][1].unique_id]_vars

\* C8 witness: the editor has rewritten the options of an entry (show_in_map
\* now differs from data) and is open on it again.
C8_Witness ==
    \E e \in Flows :
        /\ Opened(e)
        /\ history[e].init # <<>>
        /\ entries[e][1].options[CONF_SHOW_IN_MAP] # entries[e][1].data[CONF_SHOW_IN_MAP]

InRange(record) ==
    /\ CONF_FIXED_DISCOUNT \in DOMAIN record =>
          (0 <= record[CONF_FIXED_DISCOUNT] /\ record[CONF_FIXED_DISCOUNT] <= 100)
    /\ CONF_PERCENTAGE_DISCOUNT \in DOMAIN record =>
          (0 <= record[CONF_PERCENTAGE_DISCOUNT]
           /\ record[CONF_PERCENTAGE_DISCOUNT] <= 10000)

\* C9: in every stored entry, data and options hold a fixed discount within
\* [0, 1] and a percentage discount within [0, 100] (in hundredths).
C9_DiscountsInRange ==
    \A e \in Flows :
        Stored(e) => InRange(entries[e][1].data) /\ InRange(entries[e][1].options)

\* C9 witness: an entry created with the largest values the sliders accept,
\* its options written by the editor, and the editor open on it again.
C9_Witness ==
    \E e \in Flows :
        /\ Opened(e)
        /\ editors[e].cur_step # <<>>
        /\ entries[e][1].data[CONF_FIXED_DISCOUNT] = 100
        /\ entries[e][1].data[CONF_PERCENTAGE_DISCOUNT] = 10000
        /\ history[e].init # <<>>
        /\ \E raw \in OptionInputs :
              ~SchemaAccepts(editors[e].cur_step[1].data_schema, raw)

\* C10: an entry of a flow is stored only once a record was handed to its
\* options step, and the host stores at most one entry for a flow.
C10_EntryOnlyAtOptionsSubmit ==
    \A f \in Flows :
        /\ history[f].created <= 1
        /\ Stored(f) => history[f].created = 1
        /\ history[f].options = <<>> => (~Stored(f) /\ history[f].created = 0)

\* C10 witness: one flow has created its entry while another, left at the
\* station step after sending user and municipality, has stored nothing.
C10_Witness ==
    \E f, g \in Flows :
        /\ Stored(f)
        /\ StepOf(flows[g]) = "station"
        /\ history[g].municipality # <<>>
        /\ ~Stored(g)

\* The selections a flow object holds.
WizardState(flow) ==
    [province_id |-> flow.province_id, product_id |-> flow.product_id,
     municipality_id |-> flow.municipality_id, station_id |-> flow.station_id,
     fixed_discount |-> flow.fixed_discount,
     percentage_discount |-> flow.percentage_discount,
     show_in_map |-> flow.show_in_map]

\* The entry stored for flow f holds what was sent to flow f's own steps.
OwnSelections(f) ==
    /\ history[f].user # <<>> /\ history[f].municipality # <<>>
    /\ history[f].station # <<>> /\ history[f].options # <<>>
    /\ entries[f][1].data.product = history[f].user[1].product
    /\ entries[f][1].data.municipality = history[f].municipality[1].municipality
    /\ entries[f][1].data.station = history[f].station[1].station
    /\ entries[f][1].data.fixed_discount = history[f].options[1][CONF_FIXED_DISCOUNT]
    /\ entries[f][1].data.percentage_discount =
           history[f].options[1][CONF_PERCENTAGE_DISCOUNT]
    /\ entries[f][1].data.show_in_map = history[f].options[1][CONF_SHOW_IN_MAP]

\* C11: with several flows in progress and their steps interleaved, a step of
\* one flow never changes the selections another flow holds, and the entry a
\* flow creates holds only the selections sent to that same flow.
C11_FlowsIsolated ==
    [][/\ \A f, g \in Flows :
             (f # g /\ flows'[g] # flows[g])
                 => WizardState(flows'[f]) = WizardState(flows[f])
       /\ \A f \in Flows : (Stored(f))' => (OwnSelections(f))']_vars

\* C11 witness: one flow has created its entry while another flow, holding a
\* different product, province, municipality and station, waits at its options
\* step.
C11_Witness ==
    \E f, g \in Flows :
        /\ f # g
        /\ Stored(f)
        /\ StepOf(flows[g]) = "options"
        /\ flows[g].product_id # <<>>
        /\ flows[g].product_id # entries[f][1].data.product
        /\ flows[g].municipality_id # entries[f][1].data.municipality
        /\ flows[g].station_id # entries[f][1].data.station
        /\ flows[g].province_id # flows[f].province_id

\* The selections of flow f are the same after the step, but for those named.
KeepsBut(f, changed) ==
    \A k \in DOMAIN WizardState(flows[f]) \ changed :
        WizardState(flows'[f])[k] = WizardState(flows[f])[k]

\* After the step flow f shows the form of step_id.
ShowsForm(f, step_id) ==
    flows'[f].result = "form" /\ StepOf(flows'[f]) = step_id

\* C12: a step called without input returns the form of that same step and
\* changes neither the selections nor the entries; called with input it stores
\* exactly its own fields (user: product_id and province_id, municipality:
\* municipality_id, station: station_id), leaves the others as they were, and
\* the next step, called without input, returns its own form.
C12_StepFrame ==
    [][\A f \in Flows :
          /\ (flows[f].result = "none" /\ flows'[f] # flows[f])
                 => /\ ShowsForm(f, "user")
                    /\ KeepsBut(f, {})
                    /\ entries' = entries
          /\ (Submitted(f) /\ StepOf(flows[f]) = "user")
                 => /\ flows'[f].product_id = history'[f].user[1].product
                    /\ flows'[f].province_id = history'[f].user[1].province
                    /\ KeepsBut(f, {"product_id", "province_id"})
                    /\ ShowsForm(f, "municipality")
                    /\ entries' = entries
          /\ (Submitted(f) /\ StepOf(flows[f]) = "municipality")
                 => /\ flows'[f].municipality_id =
                           history'[f].municipality[1].municipality
                    /\ KeepsBut(f, {"municipality_id"})
                    /\ ShowsForm(f, "station")
                    /\ entries' = entries
          /\ (Submitted(f) /\ StepOf(flows[f]) = "station")
                 => /\ flows'[f].station_id = history'[f].station[1].station
                    /\ KeepsBut(f, {"station_id"})
                    /\ ShowsForm(f, "options")
                    /\ entries' = entries]_vars

\* The remote calls flow f issued in its last handler invocation.
RequestsOf(f) == Range(flows[f].requests)

\* C13: every request for the municipality list carries the province id of the
\* flow's latest user-step submit, every request for the station list carries
\* the municipality, product and province ids of the flow's submits, and no
\* such request is issued before those ids were submitted and stored.
C13_RequestsCarryStoredIds ==
    \A f \in Flows : \A r \in RequestsOf(f) :
        /\ r.call = "get_municipalities"
               => /\ history[f].user # <<>>
                  /\ r.args = <<history[f].user[1].province>>
                  /\ r.args = <<flows[f].province_id>>
        /\ r.call = "get_gas_stations"
               => /\ history[f].user # <<>>
                  /\ history[f].municipality # <<>>
                  /\ r.args = <<int(history[f].municipality[1].municipality),
                                int(history[f].user[1].product),
                                int(history[f].user[1].province)>>
                  /\ r.args = <<int(flows[f].municipality_id),
                                int(flows[f].product_id),
                                int(flows[f].province_id)>>

\* C13 witness: one flow has asked for the stations of municipality 280,
\* product 2, province 28 while another has asked for the municipalities of
\* province 8.
C13_Witness ==
    \E f, g \in Flows :
        /\ \E r \in RequestsOf(f) :
              r.call = "get_gas_stations" /\ r.args = <<280, 2, 28>>
        /\ \E r \in RequestsOf(g) :
              r.call = "get_municipalities" /\ r.args = <<str(8)>>

DataKeys ==
    {"product", "municipality", "station", "fixed_discount",
     "percentage_discount", "show_in_map"}

\* C14: the entry an options-step submit creates has the title
\* "{product_name}, {brand} ({address})" of the product whose id is the
\* product submitted in the flow and of the station whose id is the station
\* submitted in the flow, and its data holds exactly product, municipality,
\* station, fixed_discount, percentage_discount and show_in_map with the
\* values submitted in the flow; the province is not in it.
C14_TitleAndData ==
    \A f \in Flows :
        Stored(f) =>
            /\ DOMAIN entries[f][1].data = DataKeys
            /\ OwnSelections(f)
            /\ \E p \in Range(Products), s \in Range(Stations) :
                  /\ str(p.id) = history[f].user[1].product
                  /\ str(s.id) = history[f].station[1].station
                  /\ entries[f][1].title =
                         p.name \o ", " \o s.marquee \o " (" \o s.address \o ")"

\* C14 witness: product 1, province 28, municipality 280, station 999 were
\* submitted and the entry "Diesel, Repsol (Calle Mayor 1)" is stored with the
\* largest discounts.
C14_Witness ==
    \E f \in Flows :
        /\ Stored(f)
        /\ history[f].user = <<[product |-> str(1), province |-> str(28)]>>
        /\ entries[f][1].title = "Diesel, Repsol (Calle Mayor 1)"
        /\ entries[f][1].data.municipality = str(280)
        /\ entries[f][1].data.station = str(999)
        /\ entries[f][1].data.fixed_discount = FIXED_MAX
        /\ entries[f][1].data.percentage_discount = PERCENTAGE_MAX
        /\ entries[f][1].data.show_in_map

\* The remote call that fetches the option list of a step, and the field of
\* the step's form that shows it.
FetchOf(step_id) ==
    CASE step_id = "user" -> "get_provinces"
      [] step_id = "municipality" -> "get_municipalities"
      [] step_id = "station" -> "get_gas_stations"

ListField(step_id) ==
    CASE step_id = "user" -> "province"
      [] step_id = "municipality" -> "municipality"
      [] step_id = "station" -> "station"

\* C15: whenever a flow shows the user, municipality or station form, the
\* handler invocation that rendered it issued the remote fetch of that step's
\* list (one call, in that invocation, not a list kept from an earlier render),
\* and the options the form shows are exactly the list that fetch returned.
C15_FreshFetchPerRender ==
    \A f \in Flows :
        (flows[f].result = "form" /\ StepOf(flows[f]) \in {"user", "municipality", "station"})
            => /\ Len(flows[f].requests) = 1
               /\ flows[f].requests[1].call = FetchOf(StepOf(flows[f]))
               /\ flows[f].cur_step[1].data_schema[ListField(StepOf(flows[f]))].options
                      = OptionValues(flows[f].requests[1].response)

\* C15 witness: one flow shows the municipality form with the municipalities
\* fetched for province 28 while another shows the user form after its own
\* fetch of the provinces.
C15_Witness ==
    \E f, g \in Flows :
        /\ f # g
        /\ StepOf(flows[f]) = "municipality" /\ flows[f].result = "form"
        /\ flows[f].requests =
               <<[call |-> "get_municipalities", args |-> <<str(28)>>,
                  response |-> get_municipalities(str(28))]>>
        /\ flows[f].cur_step[1].data_schema.municipality.options = <<str(280)>>
        /\ StepOf(flows[g]) = "user" /\ flows[g].result = "form"
        /\ flows[g].requests[1].call = "get_provinces"

\* The part of a unique id after its first "-".
RECURSIVE AfterDash(_)
AfterDash(u) ==
    IF u = <<>> THEN <<>>
    ELSE IF Head(u) = "-" THEN Tail(u)
    ELSE AfterDash(Tail(u))

\* C16: in every entry the wizard creates, the station part of the unique_id
\* (built from the id of the station the remote lookup returned) equals the
\* station id kept in the entry's data (the id that was submitted).
C16_UniqueIdStationIsDataStation ==
    \A f \in Flows :
        Stored(f) => AfterDash(entries[f][1].unique_id) = entries[f][1].data.station

\* C16 witness: entries for both stations of the catalogue are stored, each
\* with its own station id behind the dash of its unique_id.
C16_Witness ==
    \E f, g \in Flows :
        /\ Stored(f) /\ Stored(g)
        /\ entries[f][1].data.station = str(999)
        /\ AfterDash(entries[f][1].unique_id) = str(999)
        /\ entries[g][1].data.station = str(7)
        /\ AfterDash(entries[g][1].unique_id) = str(7)

\* In this step a record was handed to flow f's options step and the handler
\* was left by the exception of the station lookup or of the product search.
OptionsSubmitFaults(f) ==
    /\ Submitted(f)
    /\ StepOf(flows[f]) = "options"
    /\ flows'[f].result = "fault"
    /\ flows'[f].fault \in {"get_gas_station", "next"}

\* C17: when the options-step submit is left by an exception while resolving
\* the station or the product, no entry is created and no unique_id is
\* registered for the flow: the entries are the same as before the submit.
C17_FaultCreatesNothing ==
    [][\A f \in Flows :
          OptionsSubmitFaults(f)
              => /\ entries' = entries
                 /\ history'[f].created = history[f].created
                 /\ flows'[f].unique_id = <<>>
                 /\ StepOf(flows'[f]) = "options"]_vars

\* C17 witness: a flow whose options submit was left by the exception of
\* get_gas_station stays at its options step with no unique_id and no entry,
\* beside the stored entry of another flow.
C17_Witness ==
    \E f, g \in Flows :
        /\ f # g
        /\ Stored(g)
        /\ StepOf(flows[f]) = "options"
        /\ flows[f].result = "fault"
        /\ flows[f].fault = "get_gas_station"
        /\ history[f].options # <<>>
        /\ flows[f].fixed_discount # <<>>
        /\ flows[f].unique_id = <<>>
        /\ ~Stored(f)

====
